---- MODULE Spec2Model ----
(***************************************************************************)
(* Ads Flow: the quota-gated campaign generation pipeline.                 *)
(*                                                                         *)
(* The model follows the "generate-campaign" edge function (Deno.serve     *)
(* handler): a request is authenticated, the caller's profile row is read  *)
(* from the profiles table, the monthly quota is evaluated, the external   *)
(* generation capability is called and, on a non-empty answer, the usage   *)
(* counter is written back.  Every await of the handler is a point where   *)
(* another request may run, so each segment between two awaits is one      *)
(* action.                                                                 *)
(***************************************************************************)
EXTENDS Integers, FiniteSets, Sequences, TLC

(***************************************************************************)
(* Bounds of the model.                                                    *)
(***************************************************************************)
MaxRequests == 2      \* requests received in one behaviour
MaxTicks == 2         \* clock advances in one behaviour
MaxEdits == 2         \* texts saved in the campaign editor in one behaviour
TicksPerMonth == 2    \* resolution of the clock inside one calendar month

\* The handler invocations that can be in flight at the same time: the races
\* of the handler are races between two invocations.
Reqs == {1, 2}

(***************************************************************************)
(* Time.  A Date is an instant counted in ticks; getFullYear and getMonth  *)
(* read its calendar fields (getMonth is 0-based).  toISOString renders an *)
(* instant as the text the profiles table stores (its month is 1-based),   *)
(* and NewDate parses that text back.                                      *)
(***************************************************************************)
MonthIndex(d) == d \div TicksPerMonth
getFullYear(d) == MonthIndex(d) \div 12
getMonth(d) == MonthIndex(d) % 12
toISOString(d) ==
    [year |-> getFullYear(d), month |-> getMonth(d) + 1, rest |-> d % TicksPerMonth]
NewDate(s) == ((s.year * 12 + (s.month - 1)) * TicksPerMonth) + s.rest

\* The first instant of the model: the first tick of January 2025.
StartTick == (2025 * 12) * TicksPerMonth

(***************************************************************************)
(* Plans and allowances.                                                   *)
(***************************************************************************)
Finite(n) == [finite |-> TRUE, n |-> n]
Infinity == [finite |-> FALSE, n |-> 0]
\* (the agency plan capped like the business plan)
PlanLimitsAgencyCapped ==
    [free |-> Finite(2), business |-> Finite(15), agency |-> Finite(15)]

PLAN_LIMITS == [free |-> Finite(2), business |-> Finite(15), agency |-> Infinity]
\* plan values a profile row may hold; "legacy" is none of the Plan type
Plans == {"free", "business", "agency", "legacy"}

\* (every plan given the business allowance)
UserLimitBusiness(plan) == Finite(15)

\* (a plan outside the table treated as unbounded)
UserLimitUnknownUnbounded(plan) ==
    IF plan \in DOMAIN PLAN_LIMITS THEN PLAN_LIMITS[plan] ELSE Infinity

\* PLAN_LIMITS[profile.plan as Plan] ?? 2
UserLimit(plan) ==
    IF plan \in DOMAIN PLAN_LIMITS THEN PLAN_LIMITS[plan] ELSE Finite(2)

\* (a comparison that lets a request through at the allowance)
LimitReachedAbove(currentUsage, userLimit) ==
    userLimit.finite /\ currentUsage > userLimit.n

\* currentUsage >= userLimit
LimitReached(currentUsage, userLimit) ==
    userLimit.finite /\ currentUsage >= userLimit.n

\* (the months compared without the years)
RolloverMonthOnly(now, lastReset) == getMonth(now) > getMonth(lastReset)

\* now.getFullYear() > lastReset.getFullYear() || now.getMonth() > lastReset.getMonth()
RolloverDetected(now, lastReset) ==
    \/ getFullYear(now) > getFullYear(lastReset)
    \/ getMonth(now) > getMonth(lastReset)

\* (the stored counter used whatever the month)
CurrentUsageStored(now, profile) == profile.generations_used

\* let currentUsage = profile.generations_used; if (rollover) currentUsage = 0
CurrentUsage(now, profile) ==
    IF RolloverDetected(now, NewDate(profile.generation_reset_date))
    THEN 0
    ELSE profile.generations_used

\* (an increment by two)
NewUsageTwice(currentUsage) == currentUsage + 2

\* const newUsage = currentUsage + 1
NewUsage(currentUsage) == currentUsage + 1

\* (an update that never carries the reset date)
UpdateDataCounterOnly(currentUsage, now) ==
    [generations_used |-> NewUsage(currentUsage)]

\* updateData: generations_used always, generation_reset_date when currentUsage === 0
UpdateData(currentUsage, now) ==
    IF currentUsage = 0
    THEN [generations_used |-> NewUsage(currentUsage),
          generation_reset_date |-> toISOString(now)]
    ELSE [generations_used |-> NewUsage(currentUsage)]

\* .update(updateData).eq('id', user.id) applied to a row
ApplyUpdate(row, updateData) ==
    [f \in DOMAIN row |-> IF f \in DOMAIN updateData THEN updateData[f] ELSE row[f]]

(***************************************************************************)
(* Identities and credentials.                                             *)
(***************************************************************************)
Users == {"u1", "u2", "u3"}
NoUser == "none"
NoHeader == "absent"
AuthHeaders == {NoHeader, "Bearer invalid", "Bearer u1", "Bearer u3"}

\* supabaseClient.auth.getUser(): the identity the credential resolves to
GetUser(authHeader) ==
    CASE authHeader = "Bearer u1" -> "u1"
      [] authHeader = "Bearer u2" -> "u2"
      [] authHeader = "Bearer u3" -> "u3"
      [] OTHER -> NoUser

NoProfile == [plan |-> "none", generations_used |-> 0,
              generation_reset_date |-> toISOString(0)]

\* request bodies: unparseable JSON, a body with an empty prompt, a body with a prompt
Bodies == {"malformed", "", "prompt"}

\* result.text of an answered generateContent call: a conforming campaign
\* document, a non-empty text that is no JSON document, or no text at all
ResponseTexts == {"campaign json", "not json", ""}

(***************************************************************************)
(* State.                                                                  *)
(*   clock      the wall clock new Date() reads                            *)
(*   profiles   the profiles table, one row (or none) per identity         *)
(*   req        the locals of each handler invocation, and whether it      *)
(*              wrote to the log (console.error)                           *)
(*   calls      per invocation, the calls made to each collaborator        *)
(*   before     per invocation, the profiles table when it was received    *)
(*   interfered per invocation, whether another invocation wrote the table *)
(*              since it was received                                      *)
(*   initial    the profiles table when the model starts                   *)
(*   granted    per identity and calendar month, the generations granted   *)
(*              in that month: those the row records when the model starts *)
(*              and the requests answered 200 whose 'now' lies in it       *)
(*   started    the number of requests received so far                     *)
(*   writeFailed whether the store has failed to apply an update           *)
(*   app        the state of the browser component under study: the App    *)
(*              component and the locals of its handleGenerate; or, in the *)
(*              specifications further down, the campaign editor, the      *)
(*              CampaignGenerator component, the session-gated App         *)
(***************************************************************************)
VARIABLES clock, profiles, req, calls, before, interfered, initial, granted,
          started, writeFailed, app

vars == <<clock, profiles, req, calls, before, interfered, initial, granted,
          started, writeFailed, app>>

\* The body of a response: JSON.stringify({ error: message }) for the
\* rejections, the text of the generation result as it came for a success.
JsonError(error) == [shape |-> "{error: string}", value |-> error]
RawText(text) == [shape |-> "text", value |-> text]

NoResponse == [status |-> 0, body |-> RawText("")]
NoUpdate == [generations_used |-> 0]

InitReq ==
    [pc |-> "idle", body |-> "none", authHeader |-> NoHeader, user |-> NoUser,
     userError |-> FALSE, profile |-> NoProfile, profileError |-> FALSE,
     now |-> 0, currentUsage |-> 0, responseText |-> "",
     updateData |-> NoUpdate, updateError |-> FALSE, thrown |-> FALSE,
     logged |-> FALSE, response |-> NoResponse]

NoCalls == [getUser |-> 0, select |-> 0, generateContent |-> 0, update |-> 0]

\* generation_reset_date values a row may hold when the model starts: this
\* month, and last month (December of the year before)
InitResetDates == {StartTick, StartTick - TicksPerMonth}

\* generations_used values a row of the plan may hold when the model starts:
\* none, and the values around the plan's allowance (above it after a downgrade)
InitUsed(plan) ==
    CASE plan = "business" -> {0, 14, 15, 16}
      [] plan = "agency" -> {0, 16}
      [] OTHER -> {0, 1, 2, 3}

InitProfiles ==
    UNION {[plan : {plan}, generations_used : InitUsed(plan),
            generation_reset_date : {toISOString(d) : d \in InitResetDates}]
           : plan \in Plans}

\* the row of the second identity; the third identity has no row
OtherProfile ==
    [plan |-> "free", generations_used |-> 1,
     generation_reset_date |-> toISOString(StartTick)]

Months == MonthIndex(StartTick)..MonthIndex(StartTick + MaxTicks)

NoProfiles == [u \in Users |-> NoProfile]

\* the generations a row records for calendar month m: its counter, when its
\* window started in that month
UsedInMonth(row, m) ==
    IF row # NoProfile /\ MonthIndex(NewDate(row.generation_reset_date)) = m
    THEN row.generations_used
    ELSE 0

\* The App component before anyone has signed in: its useState values, the
\* locals of handleGenerate (pc, now, currentUsage), and for the handleGenerate
\* in progress the console.error messages it wrote and the calls it made.
InitApp ==
    [pc |-> "idle", user |-> NoUser, profile |-> NoProfile, prompt |-> "",
     campaignData |-> "null", loading |-> FALSE, error |-> "",
     showAuthModal |-> FALSE, showUpgradeModal |-> FALSE,
     now |-> 0, currentUsage |-> 0, rolled |-> FALSE, console |-> {},
     updates |-> 0, generateCalls |-> 0, invocations |-> 0]

Init ==
    /\ clock = StartTick
    /\ app = InitApp
    /\ profiles \in [Users -> InitProfiles \cup {NoProfile}]
    /\ profiles["u2"] = OtherProfile
    /\ profiles["u3"] = NoProfile
    /\ profiles["u1"] \in InitProfiles
    /\ req = [r \in Reqs |-> InitReq]
    /\ calls = [r \in Reqs |-> NoCalls]
    /\ initial = profiles
    /\ before = [r \in Reqs |-> NoProfiles]
    /\ interfered = [r \in Reqs |-> FALSE]
    /\ granted = [u \in Users |-> [m \in Months |-> UsedInMonth(profiles[u], m)]]
    /\ started = 0
    /\ writeFailed = FALSE

(***************************************************************************)
(* Responses of the handler.                                               *)
(***************************************************************************)
Response(status, body) == [status |-> status, body |-> body]

\* return new Response(...): the invocation ends with this response
Respond(r, fields, resp) ==
    req' = [req EXCEPT ![r] = [f \in DOMAIN req[r] |->
                IF f = "pc" THEN "done"
                ELSE IF f = "response" THEN resp
                ELSE IF f \in DOMAIN fields THEN fields[f]
                ELSE req[r][f]]]

\* the invocation goes on to its next await
Continue(r, pc, fields) ==
    req' = [req EXCEPT ![r] = [f \in DOMAIN req[r] |->
                IF f = "pc" THEN pc
                ELSE IF f \in DOMAIN fields THEN fields[f]
                ELSE req[r][f]]]

Called(r, callee) == calls' = [calls EXCEPT ![r][callee] = @ + 1]

(***************************************************************************)
(* The handler, one action per segment between two awaits.                 *)
(***************************************************************************)

\* A write of the profiles table by invocation r is seen by every other
\* invocation that has been received.
Interfere(r) ==
    interfered' = [q \in Reqs |->
        IF q # r /\ req[q].pc # "idle" THEN TRUE ELSE interfered[q]]

\* (the Authorization header checked before the prompt)
ReceiveOutcomeHeaderFirst(body, authHeader) ==
    IF body = "malformed" THEN "throws"
    ELSE IF authHeader = NoHeader THEN "no header"
    ELSE IF body = "" THEN "no prompt"
    ELSE "getUser"

\* The checks made before the first call to a collaborator, in the handler's
\* order: req.json() (throws on a malformed body), !prompt, !authHeader.
ReceiveOutcome(body, authHeader) ==
    IF body = "malformed" THEN "throws"
    ELSE IF body = "" THEN "no prompt"
    ELSE IF authHeader = NoHeader THEN "no header"
    ELSE "getUser"

\* the answer of the catch block
CatchResponse == Response(500, JsonError("internal error"))

\* catch (e) { console.error(e) ... }: the only log entry the handler writes
Caught == [thrown |-> TRUE, logged |-> TRUE]

\* req.json(), the prompt check and the Authorization header check; then
\* auth.getUser() is called.  The local authHeader is assigned after the
\* prompt check only.
Receive(r, body, authHeader) ==
    /\ req[r].pc = "idle"
    /\ \A q \in Reqs : q < r => req[q].pc # "idle"
    /\ started < MaxRequests
    /\ started' = started + 1
    /\ before' = [before EXCEPT ![r] = profiles]
    /\ LET in == [body |-> body, authHeader |-> authHeader]
           outcome == ReceiveOutcome(body, authHeader)
       IN
       IF outcome = "throws"
       THEN /\ Respond(r, [body |-> body] @@ Caught, CatchResponse)
            /\ UNCHANGED calls
       ELSE IF outcome = "no prompt"
       THEN /\ Respond(r, [body |-> body], Response(400, JsonError("prompt is required")))
            /\ UNCHANGED calls
       ELSE IF outcome = "no header"
       THEN /\ Respond(r, in, Response(401, JsonError("authorization header is required")))
            /\ UNCHANGED calls
       ELSE /\ Continue(r, "authenticating", in)
            /\ Called(r, "getUser")
    /\ UNCHANGED <<clock, profiles, interfered, initial, granted, writeFailed>>
    /\ UNCHANGED app

\* (the missing user not checked)
AuthFailedOnErrorOnly(userError, user) == userError

\* userError || !user
AuthFailed(userError, user) == userError \/ user = NoUser

\* auth.getUser() answers with an error and no user, or with the user the
\* credential resolves to (none for an invalid credential); a failed
\* authentication ends the request, otherwise the profile row is selected
GetUserReturns(r, userError) ==
    /\ req[r].pc = "authenticating"
    /\ LET user == IF userError THEN NoUser ELSE GetUser(req[r].authHeader)
           locals == [user |-> user, userError |-> userError]
       IN
       IF AuthFailed(userError, user)
       THEN /\ Respond(r, locals, Response(401, JsonError("authentication failed")))
            /\ UNCHANGED calls
       ELSE /\ Continue(r, "profileLoading", locals)
            /\ Called(r, "select")
    /\ UNCHANGED <<clock, profiles, before, interfered, initial, granted,
                   started, writeFailed>>
    /\ UNCHANGED app

\* profileError || !profile
ProfileFailed(profileError, profile) == profileError \/ profile = NoProfile

\* the select on profiles answers with an error and no row, or with the row
\* of user.id (single() answers an error when there is none)
SelectReturns(r, storeError) ==
    /\ req[r].pc = "profileLoading"
    /\ LET profile == IF storeError \/ req[r].user \notin Users
                      THEN NoProfile
                      ELSE profiles[req[r].user]
           profileError == storeError \/ profile = NoProfile
           locals == [profile |-> profile, profileError |-> profileError]
       IN
       IF ProfileFailed(profileError, profile)
       THEN Respond(r, locals, Response(500, JsonError("could not retrieve the user profile")))
       ELSE Continue(r, "quotaChecking", locals)
    /\ UNCHANGED <<clock, profiles, calls, before, interfered, initial, granted,
                   started, writeFailed>>
    /\ UNCHANGED app

\* (the limit rejection answered like a missing prompt)
LimitResponseBadRequest == Response(400, JsonError("generation limit reached"))

\* the answer to a request over its limit
LimitResponse == Response(429, JsonError("generation limit reached"))

\* the quota check and the API key check (apiKey: whether GEMINI_API_KEY is
\* set in the environment); then generateContent is called
QuotaCheck(r, apiKey) ==
    /\ req[r].pc = "quotaChecking"
    /\ LET now == clock
           currentUsage == CurrentUsage(now, req[r].profile)
           userLimit == UserLimit(req[r].profile.plan)
           locals == [now |-> now, currentUsage |-> currentUsage]
       IN
       IF LimitReached(currentUsage, userLimit)
       THEN /\ Respond(r, locals, LimitResponse)
            /\ UNCHANGED calls
       ELSE IF ~apiKey
       THEN /\ Respond(r, locals, Response(500, JsonError("API key not configured")))
            /\ UNCHANGED calls
       ELSE /\ Continue(r, "generating", locals)
            /\ Called(r, "generateContent")
    /\ UNCHANGED <<clock, profiles, before, interfered, initial, granted,
                   started, writeFailed>>
    /\ UNCHANGED app

\* (a handler that answers with the campaign without writing the usage)
GenerateReturnsAnswers(r, responseText) ==
    /\ req[r].pc = "generating"
    /\ IF responseText = ""
       THEN Respond(r, [responseText |-> responseText],
                    Response(500, JsonError("the API returned an empty response")))
       ELSE Respond(r, [responseText |-> responseText],
                    Response(200, RawText(responseText)))
    /\ UNCHANGED <<clock, profiles, calls, before, interfered, initial, granted,
                   started, writeFailed>>
    /\ UNCHANGED app

\* generateContent answers with result.text: an empty text ends the request,
\* otherwise the update of the profile row is issued
GenerateReturns(r, responseText) ==
    /\ req[r].pc = "generating"
    /\ IF responseText = ""
       THEN /\ Respond(r, [responseText |-> responseText],
                        Response(500, JsonError("the API returned an empty response")))
            /\ UNCHANGED calls
       ELSE /\ Continue(r, "persisting",
                        [responseText |-> responseText,
                         updateData |-> UpdateData(req[r].currentUsage, req[r].now)])
            /\ Called(r, "update")
    /\ UNCHANGED <<clock, profiles, before, interfered, initial, granted,
                   started, writeFailed>>
    /\ UNCHANGED app

\* (a failed generation that still counts as a use)
GenerateThrowsCounted(r) ==
    /\ req[r].pc = "generating"
    /\ profiles' = [profiles EXCEPT ![req[r].user] =
                       ApplyUpdate(@, UpdateData(req[r].currentUsage, req[r].now))]
    /\ Respond(r, Caught, Response(500, JsonError("internal error")))
    /\ UNCHANGED <<clock, calls, before, interfered, initial, granted,
                   started, writeFailed>>
    /\ UNCHANGED app

\* (a handler that calls generateContent again when the call rejects)
GenerateThrowsRetries(r) ==
    /\ req[r].pc = "generating"
    /\ calls[r].generateContent < 2
    /\ Called(r, "generateContent")
    /\ UNCHANGED <<clock, profiles, req, before, interfered, initial, granted,
                   started, writeFailed>>
    /\ UNCHANGED app

\* generateContent rejects (transport failure): the catch block answers
GenerateThrows(r) ==
    /\ req[r].pc = "generating"
    /\ Respond(r, Caught, CatchResponse)
    /\ UNCHANGED <<clock, profiles, calls, before, interfered, initial, granted,
                   started, writeFailed>>
    /\ UNCHANGED app

\* (a handler that answers an error when the store fails the update)
UpdateReturnsChecked(r) ==
    /\ req[r].pc = "persisting"
    /\ \/ /\ profiles' = [profiles EXCEPT
                 ![req[r].user] = ApplyUpdate(@, req[r].updateData)]
          /\ Interfere(r)
          /\ Respond(r, [updateError |-> FALSE], Response(200, RawText(req[r].responseText)))
          /\ UNCHANGED writeFailed
       \/ /\ writeFailed' = TRUE
          /\ Respond(r, [updateError |-> TRUE], Response(500, JsonError("could not save usage")))
          /\ UNCHANGED <<profiles, interfered>>
    /\ granted' = [granted EXCEPT ![req[r].user][MonthIndex(req[r].now)] = @ + 1]
    /\ UNCHANGED <<clock, calls, before, initial, started, app>>

\* (an update without its .eq('id', user.id) filter: every row is written)
UpdateReturnsAllRows(r) ==
    /\ req[r].pc = "persisting"
    /\ \/ /\ profiles' = [u \in Users |->
                 IF profiles[u] = NoProfile THEN NoProfile
                 ELSE ApplyUpdate(profiles[u], req[r].updateData)]
          /\ Interfere(r)
          /\ Respond(r, [updateError |-> FALSE], Response(200, RawText(req[r].responseText)))
          /\ UNCHANGED writeFailed
       \/ /\ writeFailed' = TRUE
          /\ Respond(r, [updateError |-> TRUE], Response(200, RawText(req[r].responseText)))
          /\ UNCHANGED <<profiles, interfered>>
    /\ granted' = [granted EXCEPT ![req[r].user][MonthIndex(req[r].now)] = @ + 1]
    /\ UNCHANGED <<clock, calls, before, initial, started>>
    /\ UNCHANGED app

\* the update of the profile row is applied by the store, or fails; its
\* result is not looked at, and the handler answers 200 with responseText
UpdateReturns(r) ==
    /\ req[r].pc = "persisting"
    /\ \/ /\ profiles' = [profiles EXCEPT
                 ![req[r].user] = ApplyUpdate(@, req[r].updateData)]
          /\ Interfere(r)
          /\ Respond(r, [updateError |-> FALSE], Response(200, RawText(req[r].responseText)))
          /\ UNCHANGED writeFailed
       \/ /\ writeFailed' = TRUE
          /\ Respond(r, [updateError |-> TRUE], Response(200, RawText(req[r].responseText)))
          /\ UNCHANGED <<profiles, interfered>>
    /\ granted' = [granted EXCEPT ![req[r].user][MonthIndex(req[r].now)] = @ + 1]
    /\ UNCHANGED <<clock, calls, before, initial, started>>
    /\ UNCHANGED app

\* the answered invocation is over: its locals are gone and its slot is free
Return(r) ==
    /\ req[r].pc = "done"
    /\ req' = [req EXCEPT ![r] = InitReq]
    /\ calls' = [calls EXCEPT ![r] = NoCalls]
    /\ before' = [before EXCEPT ![r] = NoProfiles]
    /\ interfered' = [interfered EXCEPT ![r] = FALSE]
    /\ UNCHANGED <<clock, profiles, initial, granted, started, writeFailed>>
    /\ UNCHANGED app

\* time passes
Tick ==
    /\ clock < StartTick + MaxTicks
    /\ clock' = clock + 1
    /\ UNCHANGED <<profiles, req, calls, before, interfered, initial, granted,
                   started, writeFailed>>
    /\ UNCHANGED app

Next ==
    \/ \E r \in Reqs, body \in Bodies, authHeader \in AuthHeaders :
          Receive(r, body, authHeader)
    \/ \E r \in Reqs, userError \in BOOLEAN : GetUserReturns(r, userError)
    \/ \E r \in Reqs, storeError \in BOOLEAN : SelectReturns(r, storeError)
    \/ \E r \in Reqs, apiKey \in BOOLEAN : QuotaCheck(r, apiKey)
    \/ \E r \in Reqs, responseText \in ResponseTexts : GenerateReturns(r, responseText)
    \/ \E r \in Reqs : GenerateThrows(r)
    \/ \E r \in Reqs : UpdateReturns(r)
    \/ \E r \in Reqs : Return(r)
    \/ Tick

Spec == Init /\ [][Next]_vars

\* The runtime resumes the handler when an awaited call has answered, and the
\* identity provider and the profile store answer every call.  Nothing bounds
\* the generation call: the handler sets no timer and passes no abort signal,
\* so no fairness is stated for its answer.
Fairness ==
    \A r \in Reqs :
        /\ WF_vars(\E userError \in BOOLEAN : GetUserReturns(r, userError))
        /\ WF_vars(\E storeError \in BOOLEAN : SelectReturns(r, storeError))
        /\ WF_vars(\E apiKey \in BOOLEAN : QuotaCheck(r, apiKey))
        /\ WF_vars(UpdateReturns(r))

SpecFair == Spec /\ Fairness

(***************************************************************************)
(* The browser client: App.handleGenerate.  It works on the profile the    *)
(* App holds in its state (read from the profiles table at sign-in), calls *)
(* the generation capability itself and writes the profiles table through  *)
(* the store client.  One action per segment between two awaits.           *)
(***************************************************************************)

\* the handler of the edge function is not running
EdgeUnchanged ==
    UNCHANGED <<req, calls, before, interfered, initial, granted, started, writeFailed>>

\* setX(...) calls and assignments to locals: the fields given, the rest kept
Set(fields) ==
    app' = [f \in DOMAIN app |-> IF f \in DOMAIN fields THEN fields[f] ELSE app[f]]

\* finally { setLoading(false) }
Finally == [pc |-> "done", loading |-> FALSE]

\* catch (e) { console.error(e); setError(...) } finally { ... }
ClientCaught(e) ==
    [console |-> app.console \cup {e},
     error |-> "error generating the campaign"] @@ Finally

\* const userLimit = PLAN_LIMITS[profile.plan] ?? 2; if (currentUsage >= userLimit)
\* the request is refused; otherwise the loading state is set and
\* generateContent is called
LimitCheck(currentUsage) ==
    IF LimitReached(currentUsage, UserLimit(app.profile.plan))
    THEN [pc |-> "done", error |-> "generation limit reached",
          showUpgradeModal |-> TRUE]
    ELSE [pc |-> "generating", loading |-> TRUE, error |-> "",
          campaignData |-> "null", generateCalls |-> app.generateCalls + 1]

\* (a client that counts the generation before it calls generateContent)
handleGenerateCountsFirst ==
    /\ app.pc = "idle"
    /\ app.invocations < MaxRequests
    /\ app.user # NoUser /\ app.profile # NoProfile /\ app.prompt # ""
    /\ profiles' = [profiles EXCEPT ![app.user].generations_used = @ + 1]
    /\ Set([pc |-> "generating", now |-> clock, loading |-> TRUE,
            currentUsage |-> app.profile.generations_used,
            generateCalls |-> app.generateCalls + 1, updates |-> app.updates + 1,
            invocations |-> app.invocations + 1])
    /\ UNCHANGED clock
    /\ EdgeUnchanged

\* handleGenerate up to its first await: the session check, the prompt check,
\* the rollover test (the reset update is issued when it is positive),
\* otherwise the limit check and the call of generateContent
handleGenerate ==
    /\ app.pc = "idle"
    /\ app.invocations < MaxRequests
    /\ LET now == clock
           started1 == [invocations |-> app.invocations + 1]
       IN
       IF app.user = NoUser \/ app.profile = NoProfile
       THEN Set([pc |-> "done", showAuthModal |-> TRUE] @@ started1)
       ELSE IF app.prompt = ""
       THEN Set([pc |-> "done", error |-> "describe the campaign"] @@ started1)
       ELSE IF RolloverDetected(now, NewDate(app.profile.generation_reset_date))
       THEN Set([pc |-> "resetting", now |-> now, currentUsage |-> 0,
                 rolled |-> TRUE, updates |-> app.updates + 1] @@ started1)
       ELSE Set(LimitCheck(app.profile.generations_used)
                  @@ [now |-> now, currentUsage |-> app.profile.generations_used]
                  @@ started1)
    /\ UNCHANGED <<clock, profiles>>
    /\ EdgeUnchanged

\* onAuthStateChange / getSession: the session's user is set and, for a
\* signed-in user, fetchUserProfile reads the row into the App's state (with
\* no row the profile state is kept); signing out clears it
Sessions == {NoUser, "u1", "u3"}

onAuthStateChange(currentUser) ==
    /\ app.pc = "idle"
    /\ app.user # currentUser
    /\ IF currentUser = NoUser
       THEN Set([user |-> NoUser, profile |-> NoProfile])
       ELSE IF profiles[currentUser] # NoProfile
       THEN Set([user |-> currentUser, profile |-> profiles[currentUser]])
       ELSE Set([user |-> currentUser])
    /\ UNCHANGED <<clock, profiles>>
    /\ EdgeUnchanged

\* the prompt field is edited
Prompts == {"", "prompt"}

setPrompt(p) ==
    /\ app.pc = "idle"
    /\ app.prompt # p
    /\ Set([prompt |-> p])
    /\ UNCHANGED <<clock, profiles>>
    /\ EdgeUnchanged

\* the reset update answers: applied (the App takes the updated row as its
\* profile) or failed (logged); then the limit check on currentUsage = 0 and
\* the call of generateContent
ResetUpdateReturns(updateError) ==
    /\ app.pc = "resetting"
    /\ IF updateError
       THEN /\ Set(LimitCheck(app.currentUsage)
                     @@ [console |-> app.console \cup {"error resetting usage"}])
            /\ UNCHANGED profiles
       ELSE LET updatedProfile ==
                    ApplyUpdate(profiles[app.user],
                                [generations_used |-> 0,
                                 generation_reset_date |-> toISOString(app.now)])
            IN /\ profiles' = [profiles EXCEPT ![app.user] = updatedProfile]
               /\ Set(LimitCheck(app.currentUsage) @@ [profile |-> updatedProfile])
    /\ UNCHANGED clock
    /\ EdgeUnchanged

\* generateContent answers with result.text: an empty text is reported, a
\* text JSON.parse rejects is caught, a campaign document is shown and the
\* increment update is issued
ClientGenerateReturns(responseText) ==
    /\ app.pc = "generating"
    /\ IF responseText = ""
       THEN Set([error |-> "the AI response was empty"] @@ Finally)
       ELSE IF responseText = "not json"
       THEN Set(ClientCaught("SyntaxError"))
       ELSE Set([pc |-> "incrementing", campaignData |-> "campaign",
                 updates |-> app.updates + 1])
    /\ UNCHANGED <<clock, profiles>>
    /\ EdgeUnchanged

\* (a client that counts a failed generation as a use)
ClientGenerateThrowsCounted ==
    /\ app.pc = "generating"
    /\ Set([pc |-> "incrementing", updates |-> app.updates + 1,
            console |-> app.console \cup {"generation error"},
            error |-> "error generating the campaign"])
    /\ UNCHANGED <<clock, profiles>>
    /\ EdgeUnchanged

\* generateContent rejects: catch and finally
ClientGenerateThrows ==
    /\ app.pc = "generating"
    /\ Set(ClientCaught("generation error"))
    /\ UNCHANGED <<clock, profiles>>
    /\ EdgeUnchanged

\* the increment update answers: applied (the App's profile follows) or failed
\* (logged); finally the loading state is cleared
IncrementUpdateReturns(updateError) ==
    /\ app.pc = "incrementing"
    /\ LET newUsage == NewUsage(app.currentUsage) IN
       IF updateError
       THEN /\ Set([console |-> app.console \cup {"failed to update generation count"}]
                     @@ Finally)
            /\ UNCHANGED profiles
       ELSE /\ profiles' = [profiles EXCEPT ![app.user] =
                               ApplyUpdate(@, [generations_used |-> newUsage])]
            /\ Set([profile |-> [app.profile EXCEPT !.generations_used = newUsage]]
                     @@ Finally)
    /\ UNCHANGED clock
    /\ EdgeUnchanged

\* handleGenerate has returned: its locals are gone, the App's state stays
handleGenerateReturns ==
    /\ app.pc = "done"
    /\ Set([pc |-> "idle", now |-> 0, currentUsage |-> 0, rolled |-> FALSE,
            console |-> {}, updates |-> 0, generateCalls |-> 0])
    /\ UNCHANGED <<clock, profiles>>
    /\ EdgeUnchanged

InitClient ==
    /\ clock = StartTick
    /\ profiles \in [Users -> InitProfiles \cup {NoProfile}]
    /\ profiles["u1"] \in InitProfiles
    /\ profiles["u2"] = OtherProfile
    /\ profiles["u3"] = NoProfile
    /\ app = InitApp
    /\ req = [r \in Reqs |-> InitReq]
    /\ calls = [r \in Reqs |-> NoCalls]
    /\ initial = profiles
    /\ before = [r \in Reqs |-> NoProfiles]
    /\ interfered = [r \in Reqs |-> FALSE]
    /\ granted = [u \in Users |-> [m \in Months |-> 0]]
    /\ started = 0
    /\ writeFailed = FALSE

NextClient ==
    \/ \E currentUser \in Sessions : onAuthStateChange(currentUser)
    \/ \E p \in Prompts : setPrompt(p)
    \/ handleGenerate
    \/ \E updateError \in BOOLEAN : ResetUpdateReturns(updateError)
    \/ \E responseText \in ResponseTexts : ClientGenerateReturns(responseText)
    \/ ClientGenerateThrows
    \/ \E updateError \in BOOLEAN : IncrementUpdateReturns(updateError)
    \/ handleGenerateReturns
    \/ Tick

SpecClient == InitClient /\ [][NextClient]_vars

(***************************************************************************)
(* The campaign editor of the App: the parsed generation result is stored  *)
(* in campaignData as it came, and every EditableField saves its text with *)
(* handleUpdateData under the path of the field it shows.  A text is a     *)
(* sequence of characters.                                                 *)
(***************************************************************************)
QUOTE == "\""
LBRACKET == "["
RBRACKET == "]"

TextA == <<"a">>
TextB == <<"b">>
QuotedA == <<QUOTE, "a", QUOTE>>
BracketedA == <<LBRACKET, "a", RBRACKET>>

\* the texts a user may type into a field
TypedTexts == {TextA, TextB, QuotedA, BracketedA}

\* v.replace(/"/g, '')
StripQuotes(v) == SelectSeq(v, LAMBDA c : c # QUOTE)

\* v.replace(/\[|\]/g, '')
StripBrackets(v) == SelectSeq(v, LAMBDA c : c \notin {LBRACKET, RBRACKET})

\* a CampaignData document with the given phrase keywords, exact keywords and
\* headlines
CampaignData(phrase, exact, headlines) ==
    [finalUrl |-> TextA, displayPath1 |-> TextA, displayPath2 |-> TextB,
     headlines |-> headlines, descriptions |-> <<TextA>>, companyName |-> TextA,
     keywords |-> [broad |-> <<TextA, TextB>>, phrase |-> phrase, exact |-> exact],
     sitelinks |-> <<[text |-> TextA, description1 |-> TextA, description2 |-> TextB]>>,
     callouts |-> <<TextA>>, structuredSnippets |-> <<TextA>>,
     negativeKeywords |-> <<TextB>>]

\* JSON.parse(responseText) of an answered generation: a document with bare
\* keywords, and one whose phrase and exact keywords came decorated (the
\* schema asks for none, nothing validates it)
ParsedResults ==
    {CampaignData(<<TextA, TextB>>, <<TextA>>, <<TextA, TextB>>),
     CampaignData(<<QuotedA>>, <<BracketedA, TextB>>, <<TextA>>)}

\* the steps of a path: a property name or an array index (0-based)
Field(key) == [isIndex |-> FALSE, key |-> key, index |-> 0]
Index(i) == [isIndex |-> TRUE, key |-> "", index |-> i]

\* current[step]
Child(current, step) ==
    IF step.isIndex THEN current[step.index + 1] ELSE current[step.key]

\* an assignment that writes the first element of an array whatever the index
AssignFirst(current, step, value) ==
    IF step.isIndex
    THEN [current EXCEPT ![1] = value]
    ELSE [current EXCEPT ![step.key] = value]

\* current[step] = value: an index equal to the length of an array extends it
Assign(current, step, value) ==
    IF step.isIndex
    THEN IF step.index < Len(current)
         THEN [current EXCEPT ![step.index + 1] = value]
         ELSE Append(current, value)
    ELSE [current EXCEPT ![step.key] = value]

\* the walk down the copy of prevData and the assignment at the last step
RECURSIVE AssignIn(_, _, _)
AssignIn(current, path, value) ==
    IF Len(path) = 1
    THEN Assign(current, path[1], value)
    ELSE Assign(current, Head(path),
                AssignIn(Child(current, Head(path)), Tail(path), value))

\* the updater handleUpdateData hands to setCampaignData
handleUpdateData(prevData, path, value) == AssignIn(prevData, path, value)

\* the indices .map((x, i) => ...) hands out for an array
Indices(array) == 0 .. (Len(array) - 1)

\* an EditableField: the path it saves under and what its onSave does to the
\* typed text
EditableField(path, strip) == [path |-> path, strip |-> strip]

\* the lists of texts at the top of a campaign
ListFields ==
    {"headlines", "descriptions", "callouts", "structuredSnippets", "negativeKeywords"}

\* the EditableFields rendered for a campaign
EditableFields(data) ==
    {EditableField(<<Field(k)>>, "none") :
        k \in {"finalUrl", "displayPath1", "displayPath2"}}
    \cup {EditableField(<<Field("keywords"), Field("broad"), Index(i)>>, "none") :
        i \in Indices(data.keywords.broad)}
    \cup {EditableField(<<Field("keywords"), Field("phrase"), Index(i)>>, "quotes") :
        i \in Indices(data.keywords.phrase)}
    \cup {EditableField(<<Field("keywords"), Field("exact"), Index(i)>>, "brackets") :
        i \in Indices(data.keywords.exact)}
    \cup UNION {{EditableField(<<Field(k), Index(i)>>, "none") : i \in Indices(data[k])} :
        k \in ListFields}
    \cup {EditableField(<<Field("sitelinks"), Index(i), Field(k)>>, "none") :
        i \in Indices(data.sitelinks), k \in {"text", "description1", "description2"}}

\* the value an EditableField's onSave passes to handleUpdateData
Saved(field, v) ==
    CASE field.strip = "quotes" -> StripQuotes(v)
      [] field.strip = "brackets" -> StripBrackets(v)
      [] OTHER -> v

Null == [null |-> TRUE]

InitEditorApp ==
    [campaignData |-> Null, generated |-> Null, edits |-> 0,
     path |-> <<>>, value |-> <<>>]

InitEditor ==
    /\ clock = StartTick
    /\ profiles = [u \in Users |-> NoProfile]
    /\ req = [r \in Reqs |-> InitReq]
    /\ calls = [r \in Reqs |-> NoCalls]
    /\ before = [r \in Reqs |-> NoProfiles]
    /\ interfered = [r \in Reqs |-> FALSE]
    /\ initial = profiles
    /\ granted = [u \in Users |-> [m \in Months |-> 0]]
    /\ started = 0
    /\ writeFailed = FALSE
    /\ app = InitEditorApp

\* {campaignData && <CampaignDisplay ... />}: the fields on the screen
RenderedFields ==
    IF app.campaignData = Null THEN {} ELSE EditableFields(app.campaignData)

\* const parsedData = JSON.parse(result.text); setCampaignData(parsedData)
setCampaignData(parsedData) ==
    /\ app.campaignData # parsedData
    /\ app' = [app EXCEPT !.campaignData = parsedData, !.generated = parsedData,
                          !.path = <<>>, !.value = <<>>]
    /\ EdgeUnchanged
    /\ UNCHANGED <<clock, profiles>>

\* handleSave of an EditableField: onSave(value), which calls
\* handleUpdateData(path, value)
onSave(field, v) ==
    /\ app.campaignData # Null
    /\ app.edits < MaxEdits
    /\ app' = [app EXCEPT
                 !.campaignData = handleUpdateData(@, field.path, Saved(field, v)),
                 !.edits = @ + 1,
                 !.path = field.path,
                 !.value = Saved(field, v)]
    /\ EdgeUnchanged
    /\ UNCHANGED <<clock, profiles>>

NextEditor ==
    \/ \E parsedData \in ParsedResults : setCampaignData(parsedData)
    \/ \E v \in TypedTexts :
         \E field \in RenderedFields : onSave(field, v)

SpecEditor == InitEditor /\ [][NextEditor]_vars

(***************************************************************************)
(* The CampaignGenerator component, which sends the prompt to the edge     *)
(* function.  Its handleGenerate comes in two versions: one reads the      *)
(* error body before it throws, the other in its catch block.  React       *)
(* commits the state set by a click handler before the next event is       *)
(* dispatched, so every event meets the attributes of the last render.     *)
(***************************************************************************)
Components == {"reads body in try", "reads body in catch"}

\* prompt.trim(), a prompt being a sequence of characters
RECURSIVE Trim(_)
Trim(p) ==
    IF p = <<>> THEN p
    ELSE IF Head(p) = " " THEN Trim(Tail(p))
    ELSE IF p[Len(p)] = " " THEN Trim(SubSeq(p, 1, Len(p) - 1))
    ELSE p

\* the prompts typed: nothing, blanks, a text, a text after a blank
TypedPrompts == {<<>>, <<" ">>, <<"p">>, <<" ", "p">>}

\* (a button disabled by an empty prompt only)
ButtonDisabledOnEmptyPrompt == Trim(app.prompt) = <<>>

\* disabled={loading || !prompt.trim()}
ButtonDisabled == app.loading \/ Trim(app.prompt) = <<>>

\* the textarea: disabled={loading}
TextareaDisabled == app.loading

InitGeneratorApp(component) ==
    [component |-> component, pc |-> "idle", prompt |-> <<>>, campaign |-> "null",
     loading |-> FALSE, error |-> "null", message |-> "", console |-> {},
     inFlight |-> 0, sent |-> 0]

InitGenerator ==
    /\ clock = StartTick
    /\ profiles = [u \in Users |-> NoProfile]
    /\ req = [r \in Reqs |-> InitReq]
    /\ calls = [r \in Reqs |-> NoCalls]
    /\ before = [r \in Reqs |-> NoProfiles]
    /\ interfered = [r \in Reqs |-> FALSE]
    /\ initial = profiles
    /\ granted = [u \in Users |-> [m \in Months |-> 0]]
    /\ started = 0
    /\ writeFailed = FALSE
    /\ \E component \in Components : app = InitGeneratorApp(component)

\* a step of the component: the fields given, the rest kept
GeneratorSet(fields) ==
    /\ Set(fields)
    /\ EdgeUnchanged
    /\ UNCHANGED <<clock, profiles>>

\* finally { setLoading(false) }: the response has been handled and the
\* locals are gone
GeneratorFinally ==
    [pc |-> "idle", loading |-> FALSE, message |-> "", inFlight |-> app.inFlight - 1]

\* onChange={(e) => setPrompt(e.target.value)}
onChange(p) ==
    /\ ~TextareaDisabled
    /\ p # app.prompt
    /\ GeneratorSet([prompt |-> p])

\* a click on the generate button: handleGenerate up to its await of
\* supabase.functions.invoke
onClick ==
    /\ ~ButtonDisabled
    /\ app.sent < MaxRequests
    /\ IF Trim(app.prompt) = <<>>
       THEN GeneratorSet([error |-> "the prompt cannot be empty"])
       ELSE GeneratorSet([pc |-> "invoking", loading |-> TRUE, error |-> "null",
                          campaign |-> "null", inFlight |-> app.inFlight + 1,
                          sent |-> app.sent + 1])

\* the answers of invoke that carry a functionError: its message names a
\* failed send or not, its context is absent or a response whose body can be
\* read
FunctionErrors ==
    [message : {"Failed to send a request", "non-2xx status code"},
     context : {"none", "response"}]

\* invoke answers with data: setCampaign(data), finally
InvokeReturnsData ==
    /\ app.pc = "invoking"
    /\ GeneratorSet([campaign |-> "data"] @@ GeneratorFinally)

\* invoke answers with a functionError
InvokeReturnsError(functionError) ==
    /\ app.pc = "invoking"
    /\ IF app.component = "reads body in try"
       THEN IF functionError.context = "response"
            THEN GeneratorSet([pc |-> "reading", message |-> functionError.message])
            ELSE GeneratorSet([error |-> functionError.message] @@ GeneratorFinally)
       ELSE LET logged == [console |-> app.console \cup {"invoke error"}] IN
            IF functionError.message = "Failed to send a request"
            THEN GeneratorSet([error |-> "communication failure"] @@ logged
                              @@ GeneratorFinally)
            ELSE IF functionError.context = "response"
            THEN GeneratorSet([pc |-> "reading", message |-> "unexpected error"] @@ logged)
            ELSE GeneratorSet([error |-> functionError.message] @@ logged
                              @@ GeneratorFinally)

\* invoke rejects with an Error
InvokeThrows ==
    /\ app.pc = "invoking"
    /\ IF app.component = "reads body in try"
       THEN GeneratorSet([error |-> "Error.message"] @@ GeneratorFinally)
       ELSE GeneratorSet([error |-> "Error.message",
                          console |-> app.console \cup {"invoke error"}]
                         @@ GeneratorFinally)

\* what context.json() gives: a body with an error field, one without, a
\* rejection
ErrorBodies == {"{error}", "{}", "rejects"}

\* context.json() answers: the message shown is the body's error, or else the
\* local errorMessage / userMessage as it stands (the component that reads in
\* its catch block has a message of its own for a body that cannot be read);
\* then setError and finally
ContextJsonReturns(errorBody) ==
    /\ app.pc = "reading"
    /\ LET errorMessage ==
              CASE errorBody = "{error}" -> "errorBody.error"
                [] errorBody = "rejects" /\ app.component = "reads body in catch"
                     -> "the answer could not be read"
                [] OTHER -> app.message
       IN GeneratorSet([error |-> errorMessage] @@ GeneratorFinally)

NextGenerator ==
    \/ \E p \in TypedPrompts : onChange(p)
    \/ onClick
    \/ InvokeReturnsData
    \/ \E functionError \in FunctionErrors : InvokeReturnsError(functionError)
    \/ InvokeThrows
    \/ \E errorBody \in ErrorBodies : ContextJsonReturns(errorBody)

SpecGenerator == InitGenerator /\ [][NextGenerator]_vars

(***************************************************************************)
(* The App component that gates the CampaignGenerator on the session.  It  *)
(* comes in two versions: one renders by session and showLogin alone, the  *)
(* other also by the route it keeps from window.location.hash.             *)
(***************************************************************************)
Apps == {"App", "App (route-based)"}

Hashes == {"", "#/app"}

\* the auth events and the session each may deliver
AuthEvents ==
    {[event |-> e, session |-> s] :
        e \in {"INITIAL_SESSION"}, s \in Sessions}
    \cup {[event |-> e, session |-> s] :
        e \in {"SIGNED_IN", "TOKEN_REFRESHED"}, s \in Sessions \ {NoUser}}
    \cup {[event |-> "SIGNED_OUT", session |-> NoUser]}

\* (a route-based App that shows the generator on its route whatever the
\* session)
RenderedByRouteOnly ==
    IF app.loading THEN {"Loading"}
    ELSE IF app.component = "App"
    THEN IF app.session # NoUser THEN {"CampaignGenerator"}
         ELSE IF app.showLogin THEN {"AuthModal"}
         ELSE {"SalesPage"}
    ELSE IF app.route = "#/app" THEN {"CampaignGenerator"}
    ELSE IF app.showLogin THEN {"AuthModal"}
    ELSE {"SalesPage"}

\* what App returns: the components on the screen
Rendered ==
    IF app.loading THEN {"Loading"}
    ELSE IF app.component = "App"
    THEN IF app.session # NoUser THEN {"CampaignGenerator"}
         ELSE IF app.showLogin THEN {"AuthModal"}
         ELSE {"SalesPage"}
    ELSE IF app.route = "#/app"
    THEN IF app.session # NoUser THEN {"CampaignGenerator"}
         ELSE IF app.showLogin THEN {"AuthModal"}
         ELSE {"AuthModal", "SalesPage"}
    ELSE IF app.showLogin THEN {"AuthModal"}
    ELSE {"SalesPage"}

InitSessionApp(component, hash) ==
    [component |-> component, session |-> NoUser, showLogin |-> FALSE,
     loading |-> TRUE, postSignupMessage |-> "null", route |-> hash, hash |-> hash,
     getSession |-> "pending", event |-> "mount", delivered |-> NoUser]

InitSession ==
    /\ clock = StartTick
    /\ profiles = [u \in Users |-> NoProfile]
    /\ req = [r \in Reqs |-> InitReq]
    /\ calls = [r \in Reqs |-> NoCalls]
    /\ before = [r \in Reqs |-> NoProfiles]
    /\ interfered = [r \in Reqs |-> FALSE]
    /\ initial = profiles
    /\ granted = [u \in Users |-> [m \in Months |-> 0]]
    /\ started = 0
    /\ writeFailed = FALSE
    /\ \E component \in Apps :
         \E hash \in (IF component = "App" THEN {""} ELSE Hashes) :
            app = InitSessionApp(component, hash)

\* a handler of App runs: the fields it sets, the rest kept; event names it
SessionSet(event, fields) ==
    /\ Set([event |-> event] @@ fields)
    /\ EdgeUnchanged
    /\ UNCHANGED <<clock, profiles>>

\* supabase.auth.getSession() resolves: setSession(session); setLoading(false)
GetSessionResolves(session) ==
    /\ app.getSession = "pending"
    /\ SessionSet("getSession", [session |-> session, loading |-> FALSE,
                                 getSession |-> "resolved", delivered |-> session])

\* the callback given to supabase.auth.onAuthStateChange
AuthStateChange(e) ==
    LET hash == CASE e.event = "SIGNED_IN" -> "#/app"
                  [] e.event = "SIGNED_OUT" -> ""
                  [] OTHER -> app.hash
        showLogin == IF e.session # NoUser THEN FALSE ELSE app.showLogin
    IN
    IF app.component = "App"
    THEN SessionSet("onAuthStateChange",
                    [session |-> e.session, showLogin |-> showLogin,
                     delivered |-> e.session])
    ELSE SessionSet("onAuthStateChange",
                    [session |-> e.session, showLogin |-> showLogin,
                     loading |-> FALSE, hash |-> hash, delivered |-> e.session])

\* onLoginClick of the SalesPage on the screen
onLoginClick ==
    /\ "SalesPage" \in Rendered
    /\ SessionSet("onLoginClick", [showLogin |-> TRUE, delivered |-> NoUser])

\* onSignupSuccess of the AuthModal on the screen (route-based App)
handleSignupSuccess ==
    /\ app.component = "App (route-based)"
    /\ "AuthModal" \in Rendered
    /\ SessionSet("handleSignupSuccess",
                  [showLogin |-> FALSE, postSignupMessage |-> "signed up",
                   delivered |-> NoUser])

\* the user changes the hash of the location
Navigate(hash) ==
    /\ app.component = "App (route-based)"
    /\ hash # app.hash
    /\ SessionSet("navigate", [hash |-> hash, delivered |-> NoUser])

\* the hashchange listener, run after the hash was changed
handleHashChange ==
    /\ app.component = "App (route-based)"
    /\ app.route # app.hash
    /\ SessionSet("hashchange", [route |-> app.hash, delivered |-> NoUser])

NextSession ==
    \/ \E session \in Sessions : GetSessionResolves(session)
    \/ \E e \in AuthEvents : AuthStateChange(e)
    \/ onLoginClick
    \/ handleSignupSuccess
    \/ \E hash \in Hashes : Navigate(hash)
    \/ handleHashChange

SpecSession == InitSession /\ [][NextSession]_vars

(***************************************************************************)
(* What the specification says, stated independently of the handler.       *)
(***************************************************************************)

\* the monthly allowance of the bounded plans
Allowance(plan) == IF plan = "business" THEN 15 ELSE 2
BoundedPlans == {"free", "business"}

\* the year-then-month rule: now's month lies strictly after lastReset's
StrictlyAfter(now, lastReset) ==
    \/ getFullYear(now) > getFullYear(lastReset)
    \/ /\ getFullYear(now) = getFullYear(lastReset)
       /\ getMonth(now) > getMonth(lastReset)

\* now lies in the calendar month of lastReset
SameMonth(now, lastReset) ==
    /\ getFullYear(now) = getFullYear(lastReset)
    /\ getMonth(now) = getMonth(lastReset)

\* the invocation has evaluated the quota (it has read the clock)
HasChecked(r) == req[r].now # 0

\* the reset date of the row the invocation read
LastReset(r) == NewDate(req[r].profile.generation_reset_date)

\* the invocation was answered
Answered(r, status) == req[r].pc = "done" /\ req[r].response.status = status

\* a row that starts within the allowance of a bounded plan
StartsWithin(u) ==
    /\ initial[u] # NoProfile
    /\ initial[u].plan \in BoundedPlans
    /\ initial[u].generations_used <= Allowance(initial[u].plan)

(***************************************************************************)
(* C1.  A generation call is made only when the effective usage (0 after a *)
(* detected rollover, the stored counter otherwise) is strictly below the  *)
(* plan's allowance; and a free or business row that starts within its     *)
(* allowance never holds a counter above it (2 for free, 15 for business), *)
(* its plan unchanged, after any requests.                                 *)
(***************************************************************************)
C1_UsageWithinAllowance ==
    /\ \A r \in Reqs :
          (calls[r].generateContent > 0 /\ req[r].profile.plan \in BoundedPlans)
          => /\ req[r].currentUsage \in {0, req[r].profile.generations_used}
             /\ req[r].currentUsage < Allowance(req[r].profile.plan)
    /\ \A u \in Users :
          StartsWithin(u)
          => /\ profiles[u].plan = initial[u].plan
             /\ profiles[u].generations_used <= Allowance(initial[u].plan)

\* a free row that started at 1 has been counted up to its allowance of 2
C1_Witness ==
    \E r \in Reqs :
        /\ Answered(r, 200)
        /\ ~req[r].updateError
        /\ req[r].profile.plan = "free"
        /\ initial[req[r].user].generations_used = 1
        /\ profiles[req[r].user].generations_used = 2

(***************************************************************************)
(* C2.  Whatever the interleaving of concurrent requests of one identity   *)
(* on a bounded plan, the generations granted in one calendar month never  *)
(* exceed the plan's allowance (every usage write being applied).          *)
(***************************************************************************)
C2_GrantsWithinAllowance ==
    \A u \in Users : \A m \in Months :
        (StartsWithin(u) /\ ~writeFailed)
        => granted[u][m] <= Allowance(initial[u].plan)

(***************************************************************************)
(* C3.  The counter never under-counts: when two concurrent requests of    *)
(* one identity both end with a successful generation in the same window,  *)
(* the stored counter ends two above its value before both requests.       *)
(***************************************************************************)
C3_NoLostUpdate ==
    \A r1 \in Reqs : \A r2 \in Reqs \ {r1} :
        ( /\ Answered(r1, 200) /\ Answered(r2, 200)
          /\ ~req[r1].updateError /\ ~req[r2].updateError
          /\ req[r1].user = req[r2].user
          /\ before[r1] = before[r2]
          /\ SameMonth(req[r1].now, NewDate(before[r1][req[r1].user].generation_reset_date))
          /\ SameMonth(req[r2].now, NewDate(before[r2][req[r2].user].generation_reset_date)) )
        => profiles[req[r1].user].generations_used
             = before[r1][req[r1].user].generations_used + 2

(***************************************************************************)
(* C4.  When the generation call fails by throwing (a transport error),    *)
(* the request is answered with a server error (500), it has issued no     *)
(* usage write, and the profiles table is what it was when the request was *)
(* received unless another request wrote it meanwhile.                     *)
(***************************************************************************)
GenerationThrew(r) ==
    req[r].pc = "done" /\ req[r].thrown /\ calls[r].generateContent = 1

Answers200(r) == req[r].pc = "persisting" /\ req'[r].pc = "done"

\* the handler detected a rollover for the row the invocation read
Rolled(r) == RolloverDetected(req[r].now, LastReset(r))

(***************************************************************************)
(* C5.  On a successful generation with no rollover detected, the usage    *)
(* write the request issued being applied by the store, the stored counter *)
(* after the request is the value read at the quota check plus exactly     *)
(* one, and the campaign is returned with status 200.  When the store      *)
(* fails the write the table is left as it was and the answer is the same. *)
(***************************************************************************)
C5_IncrementByOne ==
    [][\A r \in Reqs :
          (Answers200(r) /\ req[r].responseText = "campaign json" /\ ~Rolled(r))
          => /\ req'[r].response = Response(200, RawText("campaign json"))
             /\ ~req'[r].updateError
                  => profiles'[req[r].user].generations_used
                       = req[r].profile.generations_used + 1
             /\ req'[r].updateError => profiles' = profiles]_vars

\* the claim as written: the stored counter is the value read plus one after
\* every successful generation without rollover
C5_AsWritten ==
    [][\A r \in Reqs :
          (Answers200(r) /\ req[r].responseText = "campaign json" /\ ~Rolled(r))
          => /\ req'[r].response = Response(200, RawText("campaign json"))
             /\ profiles'[req[r].user].generations_used
                  = req[r].profile.generations_used + 1]_vars

\* a row read at 1 in its own month has been written to 2 and answered 200
C5_Witness ==
    \E r \in Reqs :
        /\ Answered(r, 200)
        /\ req[r].responseText = "campaign json"
        /\ ~req[r].updateError
        /\ ~Rolled(r)
        /\ req[r].profile.generations_used = 1
        /\ profiles[req[r].user].generations_used = 2

AtAllowanceThisMonth(r) ==
    /\ HasChecked(r)
    /\ req[r].profile.plan \in BoundedPlans
    /\ req[r].profile.generations_used >= Allowance(req[r].profile.plan)
    /\ SameMonth(req[r].now, LastReset(r))

C7_QuotaExceededRejected ==
    \A r \in Reqs :
        AtAllowanceThisMonth(r)
        => /\ Answered(r, 429)
           /\ calls[r].generateContent = 0
           /\ calls[r].update = 0
           /\ ~interfered[r] => profiles = before[r]

\* a free row at 2 in its own month was answered 429
C7_Witness ==
    \E r \in Reqs :
        /\ AtAllowanceThisMonth(r)
        /\ req[r].profile.plan = "free"
        /\ req[r].profile.generations_used = 2
        /\ Answered(r, 429)
        /\ profiles[req[r].user].generations_used = 2

Unauthenticated(r) ==
    /\ req[r].body = "prompt"
    /\ \/ req[r].authHeader = NoHeader
       \/ /\ calls[r].getUser = 1
          /\ req[r].pc # "authenticating"
          /\ req[r].userError \/ GetUser(req[r].authHeader) = NoUser

\* the select was answered without a row
ProfileUnavailable(r) ==
    /\ calls[r].select = 1
    /\ req[r].pc # "profileLoading"
    /\ req[r].profile = NoProfile

C9_AuthAndProfileFailures ==
    \A r \in Reqs :
        /\ Unauthenticated(r)
           => /\ Answered(r, 401)
              /\ calls[r].select = 0
        /\ ProfileUnavailable(r) => Answered(r, 500)
        /\ (Unauthenticated(r) \/ ProfileUnavailable(r))
           => /\ calls[r].generateContent = 0
              /\ calls[r].update = 0
              /\ ~interfered[r] => profiles = before[r]

\* one request with an invalid credential and one whose identity has no row
\* have both been answered
C9_Witness ==
    \E r1 \in Reqs : \E r2 \in Reqs :
        /\ Unauthenticated(r1)
        /\ req[r1].authHeader = "Bearer invalid"
        /\ Answered(r1, 401)
        /\ ProfileUnavailable(r2)
        /\ req[r2].user = "u3"
        /\ Answered(r2, 500)

(***************************************************************************)
(* The quota evaluation on its own: an invocation that has just read a row *)
(* evaluates the quota, for every pair of a clock reading and a stored     *)
(* reset date drawn from two years, the clock not being assumed to lie     *)
(* after the reset date.                                                   *)
(***************************************************************************)
QuotaYears == {2024, 2025}
QuotaMonths == {0, 5, 11}
QuotaDates == {((y * 12) + m) * TicksPerMonth : y \in QuotaYears, m \in QuotaMonths}

QuotaProfiles ==
    UNION {[plan : {plan}, generations_used : InitUsed(plan),
            generation_reset_date : {toISOString(d) : d \in QuotaDates}]
           : plan \in Plans}

InitQuota ==
    /\ clock \in QuotaDates
    /\ app = InitApp
    /\ profiles \in [Users -> QuotaProfiles \cup {NoProfile, OtherProfile}]
    /\ profiles["u1"] \in QuotaProfiles
    /\ profiles["u2"] = OtherProfile
    /\ profiles["u3"] = NoProfile
    /\ req = [r \in Reqs |->
                IF r = 1
                THEN [InitReq EXCEPT !.pc = "quotaChecking", !.body = "prompt",
                                     !.authHeader = "Bearer u1", !.user = "u1",
                                     !.profile = profiles["u1"]]
                ELSE InitReq]
    /\ calls = [r \in Reqs |->
                IF r = 1 THEN [NoCalls EXCEPT !.getUser = 1, !.select = 1] ELSE NoCalls]
    /\ initial = profiles
    /\ before = [r \in Reqs |-> IF r = 1 THEN profiles ELSE NoProfiles]
    /\ interfered = [r \in Reqs |-> FALSE]
    /\ granted = [u \in Users |-> [m \in Months |-> 0]]
    /\ started = 1
    /\ writeFailed = FALSE

NextQuota == \E apiKey \in BOOLEAN : QuotaCheck(1, apiKey)

SpecQuota == InitQuota /\ [][NextQuota]_vars

(***************************************************************************)
(* C10.  For every pair of now and reset date in which now's month lies    *)
(* strictly after the reset date's by the year-then-month rule, the quota  *)
(* evaluation takes the usage to be 0 (it reports the reset) and the       *)
(* allowance check is made on 0: the request is not rejected with 429.     *)
(***************************************************************************)
C10_ResetWhenStrictlyAfter ==
    \A r \in Reqs :
        (HasChecked(r) /\ StrictlyAfter(req[r].now, LastReset(r)))
        => /\ req[r].currentUsage = 0
           /\ ~Answered(r, 429)

\* a free row at 2, last reset in December 2024, evaluated in January 2025: the
\* year is greater and the month smaller
C10_Witness ==
    \E r \in Reqs :
        /\ HasChecked(r)
        /\ StrictlyAfter(req[r].now, LastReset(r))
        /\ getMonth(req[r].now) < getMonth(LastReset(r))
        /\ req[r].profile.plan = "free"
        /\ req[r].profile.generations_used = 2
        /\ req[r].currentUsage = 0
        /\ req[r].pc = "generating"

(***************************************************************************)
(* C11.  For every pair of now and reset date that is not strictly after   *)
(* by the year-then-month rule (the same calendar month and year, or now's *)
(* year earlier whatever the two months), the quota evaluation reports no  *)
(* reset and takes the usage to be the stored generations_used.            *)
(***************************************************************************)
C11_NoResetWhenNotStrictlyAfter ==
    \A r \in Reqs :
        (HasChecked(r) /\ ~StrictlyAfter(req[r].now, LastReset(r)))
        => req[r].currentUsage = req[r].profile.generations_used

\* the quota evaluation has admitted the request: the API key check follows
Admitted(r) ==
    \/ req[r].pc = "generating"
    \/ /\ Answered(r, 500)
       /\ req[r].response.body = JsonError("API key not configured")

(***************************************************************************)
(* C12.  The allowance decision is usage < limit of the plan, with 2 for   *)
(* free and 15 for business: a free or business request is refused (429)   *)
(* exactly when its usage is at or above the limit and admitted otherwise; *)
(* an agency request is admitted whatever its usage.                       *)
(***************************************************************************)
C12_AllowanceDecision ==
    \A r \in Reqs :
        HasChecked(r)
        => /\ Answered(r, 429) \/ Admitted(r)
           /\ req[r].profile.plan \in BoundedPlans
                => (Answered(r, 429)
                      <=> req[r].currentUsage >= Allowance(req[r].profile.plan))
           /\ req[r].profile.plan = "agency" => Admitted(r)

\* an agency row at 16 in its own month, a usage above every finite limit, has
\* been admitted to the generation call
C12_Witness ==
    \E r \in Reqs :
        /\ HasChecked(r)
        /\ req[r].profile.plan = "agency"
        /\ req[r].currentUsage = 16
        /\ req[r].pc = "generating"

(***************************************************************************)
(* C13.  When a rollover is detected, the reset (generations_used = 0 and  *)
(* the new generation_reset_date) is persisted before the generation call  *)
(* is made and stays persisted when the call then fails: after a request   *)
(* with rollover whose generation call failed, the stored row holds        *)
(* generations_used = 0 and the request's now as reset date.               *)
(***************************************************************************)
GenerationPendingOrFailed(r) ==
    /\ calls[r].generateContent = 1
    /\ calls[r].update = 0
    /\ req[r].pc = "generating" \/ (req[r].pc = "done" /\ req[r].response.status = 500)

C13_ResetPersistedBeforeGeneration ==
    \A r \in Reqs :
        (GenerationPendingOrFailed(r) /\ Rolled(r) /\ ~interfered[r])
        => /\ profiles[req[r].user].generations_used = 0
           /\ NewDate(profiles[req[r].user].generation_reset_date) = req[r].now

EdgeWriteFollowsGeneration ==
    [][profiles' # profiles
         => \E r \in Reqs :
               /\ req[r].pc = "persisting"
               /\ calls[r].generateContent = 1
               /\ req[r].responseText # ""
               /\ ~req[r].thrown]_vars

(***************************************************************************)
(* C15.  When the generation succeeds and the store fails to persist the   *)
(* incremented usage, the request is still answered with success (200)     *)
(* carrying the campaign, never with an error, and the stored row is left  *)
(* at its previous value.                                                  *)
(***************************************************************************)
PersistenceFailed(r) == req[r].pc = "done" /\ req[r].updateError

C15_PersistenceFailureStillSucceeds ==
    \A r \in Reqs :
        PersistenceFailed(r)
        => /\ req[r].response = Response(200, RawText(req[r].responseText))
           /\ calls[r].generateContent = 1
           /\ ~interfered[r] => profiles = before[r]

\* a free row at 1 whose update failed after the campaign was generated: the
\* campaign was returned and the row is still at 1
C15_Witness ==
    \E r \in Reqs :
        /\ PersistenceFailed(r)
        /\ ~interfered[r]
        /\ req[r].response = Response(200, RawText("campaign json"))
        /\ req[r].profile.plan = "free"
        /\ req[r].currentUsage = 1
        /\ profiles[req[r].user].generations_used = 1

\* the same in the client: when the increment update fails the campaign is
\* shown, no error is shown, and the table is left as it was
ClientPersistenceFailureStillSucceeds ==
    [][(app.pc = "incrementing" /\ "failed to update generation count" \in app'.console)
         => /\ profiles' = profiles
            /\ app'.campaignData = "campaign"
            /\ app'.error = ""]_vars

(***************************************************************************)
(* C16.  A failure to persist the incremented usage after a successful     *)
(* generation is always recorded: every request whose usage write failed   *)
(* has left a log entry.                                                   *)
(***************************************************************************)
C16_PersistenceFailureLogged ==
    \A r \in Reqs : PersistenceFailed(r) => req[r].logged

\* the generation call of the answered request returned a result that is
\* empty or no campaign document
ReturnedUnusable(r) ==
    /\ req[r].pc = "done"
    /\ calls[r].generateContent = 1
    /\ ~req[r].thrown
    /\ req[r].responseText # "campaign json"

(***************************************************************************)
(* C17.  An empty or malformed generation result (no JSON, or not the      *)
(* campaign schema) is handled as a failed generation: the caller gets a   *)
(* server error (500), never a success, and usage is not incremented.      *)
(***************************************************************************)
C17_UnusableResultIsFailure ==
    \A r \in Reqs :
        ReturnedUnusable(r)
        => /\ req[r].response.status = 500
           /\ calls[r].update = 0
           /\ ~interfered[r] => profiles = before[r]

\* the usage the request was evaluated with is at or above the allowance of its
\* plan (2 for a plan that is none of free, business, agency)
OverAllowance(r) ==
    /\ HasChecked(r)
    /\ req[r].profile.plan # "agency"
    /\ req[r].currentUsage >= Allowance(req[r].profile.plan)

\* the generation call of the request returned a non-empty text
GenerationReturned(r) ==
    /\ calls[r].generateContent = 1
    /\ ~req[r].thrown
    /\ req[r].responseText # ""

C19_GenerationTerminates ==
    \A r \in Reqs : (req[r].pc = "generating") ~> (req[r].pc = "done")

EdgeWritesOnce == \A r \in Reqs : calls[r].update <= 1

(***************************************************************************)
(* The texts of a campaign, for the claims about the editor.               *)
(***************************************************************************)
\* the paths of all texts of a campaign
Slots(data) ==
    {field.path : field \in EditableFields(data)} \cup {<<Field("companyName")>>}

\* the value under a path
RECURSIVE Get(_, _)
Get(current, path) ==
    IF path = <<>> THEN current ELSE Get(Child(current, Head(path)), Tail(path))

\* every list of the two campaigns has the same length
SameLengths(data, other) ==
    /\ \A k \in ListFields \cup {"sitelinks"} : Len(data[k]) = Len(other[k])
    /\ \A k \in {"broad", "phrase", "exact"} :
         Len(data.keywords[k]) = Len(other.keywords[k])

\* the step is an edit saved in the editor
IsEdit == app'.edits = app.edits + 1

(***************************************************************************)
(* C21.  An edit of a generated campaign keeps every list at the length it *)
(* was generated with, puts the saved text at the place its path addresses *)
(* and leaves every other text where it was and as it was.                 *)
(***************************************************************************)
C21_EditsInPlace ==
    [][IsEdit =>
         /\ SameLengths(app'.campaignData, app.generated)
         /\ Slots(app'.campaignData) = Slots(app.campaignData)
         /\ Get(app'.campaignData, app'.path) = app'.value
         /\ \A p \in Slots(app.campaignData) \ {app'.path} :
              Get(app'.campaignData, p) = Get(app.campaignData, p)]_vars

\* two edits were saved, the last one in the second element of a list, and
\* the campaign is no longer the generated one
C21_Witness ==
    /\ app.edits >= 2
    /\ app.campaignData # app.generated
    /\ app.path # <<>>
    /\ app.path[Len(app.path)] = Index(1)

\* the text holds one of the characters
Contains(text, chars) == \E i \in 1 .. Len(text) : text[i] \in chars

(***************************************************************************)
(* C22.  No stored phrase keyword holds a double quote and no stored exact *)
(* keyword holds a square bracket, right after a generation result is      *)
(* stored and after every edit.                                            *)
(***************************************************************************)
C22_KeywordsStoredBare ==
    app.campaignData # Null =>
        /\ \A i \in 1 .. Len(app.campaignData.keywords.phrase) :
             ~Contains(app.campaignData.keywords.phrase[i], {QUOTE})
        /\ \A i \in 1 .. Len(app.campaignData.keywords.exact) :
             ~Contains(app.campaignData.keywords.exact[i], {LBRACKET, RBRACKET})

\* what the editor does keep: a text saved into a phrase or exact keyword is
\* stored without its decoration
EditsStoreBare ==
    [][(IsEdit /\ Len(app'.path) = 3 /\ app'.path[1] = Field("keywords")) =>
         /\ app'.path[2] = Field("phrase") => ~Contains(app'.value, {QUOTE})
         /\ app'.path[2] = Field("exact") =>
              ~Contains(app'.value, {LBRACKET, RBRACKET})]_vars

(***************************************************************************)
(* The stages of a request of the edge function.  The prompt check is the  *)
(* stage of a request that has been received ("idle" is the handler before *)
(* its first await); "done" is the answered request, Completed when the    *)
(* answer is 200 and Errored otherwise.                                    *)
(***************************************************************************)
Stages ==
    <<"idle", "authenticating", "profileLoading", "quotaChecking", "generating",
      "persisting">>

Position(pc) == CHOOSE i \in 1 .. Len(Stages) : Stages[i] = pc

Errored(r) == req[r].pc = "done" /\ req[r].response.status \in {400, 401, 429, 500}

Completed(r) == req[r].pc = "done" /\ req[r].response.status = 200

\* the stage the request was in has failed: the body or the prompt or the
\* header is missing, the caller or the profile could not be resolved, the
\* quota is exhausted or the key missing, the generation threw or returned
\* nothing, the usage write failed
StageFailed(r) ==
    /\ req[r].pc = "done"
    /\ \/ req[r].body \in {"malformed", ""}
       \/ req[r].authHeader = NoHeader
       \/ AuthFailed(req[r].userError, req[r].user)
       \/ req[r].profileError
       \/ HasChecked(r) /\ calls[r].generateContent = 0
       \/ req[r].thrown
       \/ calls[r].generateContent = 1 /\ req[r].responseText = ""
       \/ req[r].updateError

(***************************************************************************)
(* C23.  A request moves from each stage to the next one only (prompt      *)
(* check, credential resolution, profile load, quota check, generation     *)
(* call, usage persistence) or to its one terminal outcome, which it keeps *)
(* until the invocation is over; it is Completed only out of usage         *)
(* persistence, with every collaborator called once, and Errored only out  *)
(* of an earlier stage: a failed usage write still ends Completed.         *)
(***************************************************************************)
C23_StagesInOrder ==
    [][\A r \in Reqs :
          /\ (req[r].pc # "done" /\ req'[r].pc # req[r].pc)
             => \/ /\ req[r].pc # "persisting"
                   /\ req'[r].pc = Stages[Position(req[r].pc) + 1]
                \/ /\ req[r].pc # "persisting"
                   /\ Errored(r)'
                   /\ StageFailed(r)'
                \/ /\ req[r].pc = "persisting"
                   /\ Completed(r)'
                   /\ calls'[r] = [getUser |-> 1, select |-> 1,
                                   generateContent |-> 1, update |-> 1]
          /\ req[r].pc = "done"
             => \/ req'[r] = req[r]
                \/ req'[r] = InitReq]_vars

\* the claim as written: Errored is the outcome of a failure in every stage
C23_AsWritten == \A r \in Reqs : StageFailed(r) => Errored(r)

\* one request has ended Errored out of the generation call and the other
\* Completed
C23_Witness ==
    \E r1 \in Reqs : \E r2 \in Reqs :
        /\ Errored(r1)
        /\ calls[r1].generateContent = 1
        /\ Completed(r2)

(***************************************************************************)
(* C24.  A request calls the external generation at most once: when the    *)
(* call throws or returns nothing the request is answered with an error,   *)
(* with no second call and no usage write issued; and the step in which    *)
(* the generation answers leaves the profiles table as it is.              *)
(***************************************************************************)
C24_OneGenerationCall ==
    [][\A r \in Reqs :
          /\ calls'[r].generateContent <= 1
          /\ (req[r].pc = "generating" /\ req'[r].pc # "generating")
             => /\ profiles' = profiles
                /\ Errored(r)' => (calls'[r].generateContent = 1 /\ calls'[r].update = 0)]_vars

\* a generation that returned an empty text has been answered with an error
\* after its one call
C24_Witness ==
    \E r \in Reqs :
        /\ Errored(r)
        /\ calls[r].generateContent = 1
        /\ ~req[r].thrown
        /\ req[r].responseText = ""

(***************************************************************************)
(* C25.  The usage write of a request that detected no rollover leaves the *)
(* stored reset date of the caller's row exactly as it was, whatever the   *)
(* stored counter, 0 included.                                             *)
(***************************************************************************)
C25_ResetDateOnlyOnRollover ==
    [][\A r \in Reqs :
          (Answers200(r) /\ ~Rolled(r))
          => profiles'[req[r].user].generation_reset_date
               = profiles[req[r].user].generation_reset_date]_vars

\* what does hold: without a rollover the reset date is left alone when the
\* counter read was above 0
ResetDateKeptAboveZero ==
    [][\A r \in Reqs :
          (Answers200(r) /\ ~Rolled(r) /\ req[r].profile.generations_used > 0)
          => profiles'[req[r].user].generation_reset_date
               = profiles[req[r].user].generation_reset_date]_vars

(***************************************************************************)
(* C26.  A step of a request changes no plan, and changes no row but the   *)
(* row of the caller the request authenticated; the row a request reads is *)
(* the row of that caller.                                                 *)
(***************************************************************************)
C26_OwnRowOnly ==
    [][/\ \A u \in Users :
            /\ profiles'[u] # NoProfile <=> profiles[u] # NoProfile
            /\ profiles[u] # NoProfile => profiles'[u].plan = profiles[u].plan
            /\ profiles'[u] # profiles[u]
               => \E r \in Reqs : Answers200(r) /\ req[r].user = u
       /\ \A r \in Reqs :
            (req[r].pc = "profileLoading" /\ req'[r].pc = "quotaChecking")
            => /\ req[r].user = GetUser(req[r].authHeader)
               /\ req'[r].profile = profiles[req[r].user]]_vars

\* the row of u1 has been written by its request and the row of u2 is what
\* it was
C26_Witness ==
    /\ profiles["u1"] # initial["u1"]
    /\ profiles["u2"] = initial["u2"]
    /\ \E r \in Reqs : Answered(r, 200) /\ req[r].user = "u1"

(***************************************************************************)
(* C27.  A request in which a rollover is detected is evaluated on a usage *)
(* of 0, which is below the allowance of every plan, that of a plan        *)
(* outside the table included: it is never answered 429 and is admitted to *)
(* the generation stage, where the edge function calls the generation      *)
(* unless its API key is not configured.                                   *)
(***************************************************************************)
C27_RolloverNeverRejected ==
    /\ \A plan \in Plans : ~LimitReached(0, UserLimit(plan))
    /\ \A r \in Reqs :
          (HasChecked(r) /\ Rolled(r))
          => /\ req[r].currentUsage = 0
             /\ ~Answered(r, 429)
             /\ Admitted(r)
             /\ req[r].pc = "generating" <=> calls[r].generateContent = 1

\* the claim as written: the request always proceeds to the generation call
C27_AsWritten ==
    \A r \in Reqs :
        (HasChecked(r) /\ Rolled(r))
        => /\ ~Answered(r, 429)
           /\ calls[r].generateContent = 1

\* a row of an unrecognised plan, above the allowance of 2, has been admitted
\* to the generation call after a rollover
C27_Witness ==
    \E r \in Reqs :
        /\ HasChecked(r)
        /\ Rolled(r)
        /\ req[r].profile.plan = "legacy"
        /\ req[r].profile.generations_used = 3
        /\ calls[r].generateContent = 1

(***************************************************************************)
(* C28.  A row whose plan is none of free, business and agency has the     *)
(* allowance 2: its request is admitted on a usage of 0 or 1 and answered  *)
(* 429 on a usage of 2 or more.                                            *)
(***************************************************************************)
C28_UnknownPlanGetsFreeAllowance ==
    \A r \in Reqs :
        (HasChecked(r) /\ req[r].profile.plan \notin {"free", "business", "agency"})
        => /\ req[r].currentUsage \in {0, 1} => Admitted(r)
           /\ req[r].currentUsage >= 2 => Answered(r, 429)

\* a row of an unrecognised plan at 2 in its own month has been rejected
C28_Witness ==
    \E r \in Reqs :
        /\ HasChecked(r)
        /\ req[r].profile.plan = "legacy"
        /\ ~Rolled(r)
        /\ req[r].currentUsage = 2
        /\ Answered(r, 429)

(***************************************************************************)
(* C29.  In the CampaignGenerator component at most one request is in      *)
(* flight; while one is (sent and its answer not yet handled) loading is   *)
(* true and the generate button is disabled; and when none is, the answer  *)
(* of the last one having been handled on whatever path, loading is false. *)
(***************************************************************************)
C29_LoadingWhileInFlight ==
    /\ app.inFlight \in {0, 1}
    /\ (app.inFlight = 1) <=> (app.pc \in {"invoking", "reading"})
    /\ (app.inFlight = 1) => (app.loading /\ ButtonDisabled)
    /\ (app.inFlight = 0) => ~app.loading

\* a second request has been sent after the first was handled, and its error
\* answer, read from the body, has been handled too: loading is false
C29_Witness ==
    /\ app.sent = 2
    /\ app.pc = "idle"
    /\ app.error = "errorBody.error"
    /\ ~app.loading

(***************************************************************************)
(* C30.  Whatever the order of the session load, the auth state changes,   *)
(* the login clicks and the route changes, App renders CampaignGenerator   *)
(* only with a session in its state, and right after an auth state change  *)
(* that delivered a session showLogin is false.                            *)
(***************************************************************************)
C30_GeneratorOnlyWithSession ==
    /\ "CampaignGenerator" \in Rendered => app.session # NoUser
    /\ (app.event = "onAuthStateChange" /\ app.delivered # NoUser)
         => (~app.showLogin /\ app.session = app.delivered)

\* a session was delivered by an auth state change before the session load
\* resolved, and the route has followed the hash: the route-based App shows
\* the generator
C30_Witness ==
    /\ app.component = "App (route-based)"
    /\ app.event = "onAuthStateChange"
    /\ app.delivered = "u1"
    /\ app.getSession = "pending"
    /\ app.route = "#/app"
    /\ Rendered = {"CampaignGenerator"}

====
